---- MODULE Spec2Model ----
(***************************************************************************)
(* get-pubmed-papers: the extraction pipeline of get_papers/fetcher.py     *)
(* (has_company_affiliation, parse_articles) and the command-line driver   *)
(* main() of main.py.                                                      *)
(*                                                                         *)
(* Python values are records [kind, s]: kind "str" carries its characters  *)
(* in s (a sequence of one-character strings), kind "None" is None, and    *)
(* kind "TypeError" is the exception an expression raised.  An XML element *)
(* is a record [text |-> value]; ElementTree gives a present element with  *)
(* no character data the text None.  The children with one tag are kept as *)
(* the sequence of their occurrences in document order.                    *)
(***************************************************************************)
EXTENDS Integers, Sequences, FiniteSets, TLC

\* ------------------------------------------------------------ bounds
\* Articles in a multi-article document.
MaxArticles == 3
\* Author elements in the article of an author-varied document.
MaxAuthors == 2
\* PubDate blocks in an article.
MaxPubDates == 2
\* Vocabulary pieces concatenated into an affiliation text.
MaxPieces == 3
\* Identifiers search_pubmed returns.
MaxIds == 1

\* ------------------------------------------------------------ Python values
PyNone == [kind |-> "None", s |-> <<>>]

PyStr(chars) == [kind |-> "str", s |-> chars]

TypeError == [kind |-> "TypeError", s |-> <<>>]

\* Python truthiness of None and of a str: `not x` is ~Truthy(x).
Truthy(v) == v.kind = "str" /\ v.s # <<>>

\* str + str; an operand that is None raises TypeError.
PyAdd(a, b) ==
    IF a.kind = "str" /\ b.kind = "str" THEN PyStr(a.s \o b.s) ELSE TypeError

\* The sentinels of parse_articles.
NoTitle == PyStr(<<"N", "o", " ", "T", "i", "t", "l", "e">>)

NA == PyStr(<<"N", "/", "A">>)

Unknown == PyStr(<<"U", "n", "k", "n", "o", "w", "n">>)

\* ------------------------------------------------------------ ElementTree
Elem(text) == [text |-> text]

\* Element.find: the first occurrence, or None (the empty sequence here).
Find(occurrences) ==
    IF occurrences = <<>> THEN <<>> ELSE <<occurrences[1]>>

IsNotNone(found) == found # <<>>

\* ------------------------------------------------------------ has_company_affiliation
keywords ==
    << <<"I", "n", "c">>,
       <<"L", "t", "d">>,
       <<"C", "o", "r", "p", "o", "r", "a", "t", "i", "o", "n">>,
       <<"P", "h", "a", "r", "m", "a">>,
       <<"B", "i", "o", "t", "e", "c", "h">>,
       <<"L", "L", "C">> >>

excluded ==
    << <<"U", "n", "i", "v", "e", "r", "s", "i", "t", "y">>,
       <<"H", "o", "s", "p", "i", "t", "a", "l">>,
       <<"S", "c", "h", "o", "o", "l">>,
       <<"I", "n", "s", "t", "i", "t", "u", "t", "e">> >>

\* Whether needle starts at offset p (1-based) of hay, compared character by
\* character from the left.
RECURSIVE StartsAt(_, _, _, _)
StartsAt(needle, hay, p, j) ==
    IF j > Len(needle) THEN TRUE
    ELSE IF p + j - 1 > Len(hay) THEN FALSE
    ELSE IF hay[p + j - 1] # needle[j] THEN FALSE
    ELSE StartsAt(needle, hay, p, j + 1)

\* `k in affiliation`: a case-sensitive substring search, offsets left to right.
RECURSIVE InFrom(_, _, _)
InFrom(needle, hay, p) ==
    IF p + Len(needle) - 1 > Len(hay) THEN FALSE
    ELSE IF StartsAt(needle, hay, p, 1) THEN TRUE
    ELSE InFrom(needle, hay, p + 1)

In(needle, hay) == InFrom(needle, hay, 1)

\* any(k in affiliation for k in list), in list order.
RECURSIVE AnyIn(_, _, _)
AnyIn(list, hay, n) ==
    IF n > Len(list) THEN FALSE
    ELSE IF In(list[n], hay) THEN TRUE
    ELSE AnyIn(list, hay, n + 1)

\* has_company_affiliation without the veto of the excluded markers.
has_company_affiliation_no_veto(affiliation) ==
    IF ~Truthy(affiliation) THEN FALSE
    ELSE AnyIn(keywords, affiliation.s, 1)

has_company_affiliation(affiliation) ==
    IF ~Truthy(affiliation) THEN FALSE
    ELSE AnyIn(keywords, affiliation.s, 1) /\ ~AnyIn(excluded, affiliation.s, 1)

\* ------------------------------------------------------------ re.search
\* \w for the characters the model's texts are made of.
WordChars ==
    {"A", "B", "C", "D", "E", "F", "G", "H", "I", "J", "K", "L", "M",
     "N", "O", "P", "Q", "R", "S", "T", "U", "V", "W", "X", "Y", "Z",
     "a", "b", "c", "d", "e", "f", "g", "h", "i", "j", "k", "l", "m",
     "n", "o", "p", "q", "r", "s", "t", "u", "v", "w", "x", "y", "z",
     "0", "1", "2", "3", "4", "5", "6", "7", "8", "9", "_"}

\* The character class [\w\.-].
InClass(c) == c \in WordChars \/ c = "." \/ c = "-"

\* The greedy length of [\w\.-]* from offset p.
RECURSIVE RunLen(_, _)
RunLen(text, p) ==
    IF p > Len(text) THEN 0
    ELSE IF ~InClass(text[p]) THEN 0
    ELSE 1 + RunLen(text, p + 1)

\* The tail with a lazy quantifier, @[\w\.-]+?: one character of domain.
TailAtLazy(text, p) ==
    IF p > Len(text) THEN 0
    ELSE IF text[p] # "@" THEN 0
    ELSE IF RunLen(text, p + 1) = 0 THEN 0
    ELSE p + 1

\* The tail of the pattern, @[\w\.-]+, tried at offset p: the end offset of
\* the match, or 0.
TailAt(text, p) ==
    IF p > Len(text) THEN 0
    ELSE IF text[p] # "@" THEN 0
    ELSE IF RunLen(text, p + 1) = 0 THEN 0
    ELSE p + RunLen(text, p + 1)

\* [\w\.-]+ from offset start with the backtracking of a greedy quantifier:
\* the longest local part first, then shorter ones, down to one character.
RECURSIVE Backtrack(_, _, _)
Backtrack(text, start, len) ==
    IF len < 1 THEN 0
    ELSE IF TailAt(text, start + len) # 0 THEN TailAt(text, start + len)
    ELSE Backtrack(text, start, len - 1)

\* re.search: the first start offset, left to right, at which the pattern
\* matches; <<>> is None, <<m>> is a match object with group(0) = m.
RECURSIVE SearchFrom(_, _)
SearchFrom(text, start) ==
    IF start > Len(text) THEN <<>>
    ELSE IF Backtrack(text, start, RunLen(text, start)) # 0
         THEN <<SubSeq(text, start, Backtrack(text, start, RunLen(text, start)))>>
    ELSE SearchFrom(text, start + 1)

re_search(text) == SearchFrom(text, 1)

\* ------------------------------------------------------------ parse_articles, one article
\* title_elem.text if title_elem is not None else "No Title"
Title(article) ==
    IF IsNotNone(Find(article.title)) THEN Find(article.title)[1].text ELSE NoTitle

\* pmid_elem.text if pmid_elem is not None else "N/A"
Pmid(article) ==
    IF IsNotNone(Find(article.pmid)) THEN Find(article.pmid)[1].text ELSE NA

\* The date with the two sub-fields consulted in the other order.
PubDateMedlineFirst(article) ==
    LET date_elem == Find(article.pubdate)
    IN  IF ~IsNotNone(date_elem) THEN Unknown
        ELSE LET year == Find(date_elem[1].year)
                 medline_date == Find(date_elem[1].medline)
             IN  IF IsNotNone(medline_date) THEN medline_date[1].text
                 ELSE IF IsNotNone(year) THEN year[1].text
                 ELSE Unknown

\* The date of the first PubDate block: Year, else MedlineDate, else "Unknown".
PubDate(article) ==
    LET date_elem == Find(article.pubdate)
    IN  IF ~IsNotNone(date_elem) THEN Unknown
        ELSE LET year == Find(date_elem[1].year)
                 medline_date == Find(date_elem[1].medline)
             IN  IF IsNotNone(year) THEN year[1].text
                 ELSE IF IsNotNone(medline_date) THEN medline_date[1].text
                 ELSE Unknown

\* (first.text + " " if first is not None else "") + (last.text if last is not None else "")
FullName(author) ==
    LET last == Find(author.last)
        first == Find(author.fore)
    IN  PyAdd(IF IsNotNone(first) THEN PyAdd(first[1].text, PyStr(<<" ">>))
                                  ELSE PyStr(<<>>),
              IF IsNotNone(last) THEN last[1].text ELSE PyStr(<<>>))

\* email_match.group(0) if email_match else "N/A"
Email(affiliation_text) ==
    LET email_match == re_search(affiliation_text.s)
    IN  IF email_match # <<>> THEN PyStr(email_match[1]) ELSE NA

\* The guard of the author loop's body.
Qualifies(author) ==
    LET affil_elem == Find(author.affil)
    IN  IsNotNone(affil_elem) /\ has_company_affiliation(affil_elem[1].text)

\* The tuple the loop body appends for a qualifying author.
AuthorTuple(author) ==
    [name |-> FullName(author),
     affiliation |-> Find(author.affil)[1].text,
     email |-> Email(Find(author.affil)[1].text)]

\* company_authors.insert(0, ...)
AccumulateFront(company_authors, tuple) == <<tuple>> \o company_authors

\* company_authors.append(...)
Accumulate(company_authors, tuple) == Append(company_authors, tuple)

\* The author loop from author k on: the accumulated tuples, or the TypeError
\* the name expression raised, which ends the loop (and parse_articles).
RECURSIVE AuthorLoop(_, _, _)
AuthorLoop(authors, k, company_authors) ==
    IF k > Len(authors) THEN [raised |-> FALSE, list |-> company_authors]
    ELSE IF ~Qualifies(authors[k]) THEN AuthorLoop(authors, k + 1, company_authors)
    ELSE IF FullName(authors[k]) = TypeError THEN [raised |-> TRUE, list |-> <<>>]
    ELSE AuthorLoop(authors, k + 1, Accumulate(company_authors, AuthorTuple(authors[k])))

\* [a[n] for a in company_authors]
Column(company_authors, field) ==
    [k \in 1..Len(company_authors) |-> company_authors[k][field]]

\* The dict appended to results.
ResultRecord(article, company_authors) ==
    [pmid |-> Pmid(article),
     title |-> Title(article),
     date |-> PubDate(article),
     authors |-> Column(company_authors, "name"),
     affiliations |-> Column(company_authors, "affiliation"),
     emails |-> Column(company_authors, "email")]

\* ------------------------------------------------------------ inputs
RECURSIVE Flatten(_)
Flatten(pieces) ==
    IF pieces = <<>> THEN <<>> ELSE Head(pieces) \o Flatten(Tail(pieces))

\* Pieces of affiliation text: markers whole ("Inc", "LLC", "School"), a
\* marker split in two ("In", "c"), a marker in the wrong case, an address,
\* and the separators of addresses.
Vocabulary ==
    {<<"I", "n", "c">>, <<"I", "n">>, <<"c">>, <<"i", "n", "c">>,
     <<"L", "L", "C">>, <<"S", "c", "h", "o", "o", "l">>,
     <<"a", "@", "b">>, <<"@">>, <<".">>, <<"-">>, <<" ">>}

\* Element.text for the character data chars: None when there is none.
Text(chars) == IF chars = <<>> THEN PyNone ELSE PyStr(chars)

\* An optional element: absent, present with no text, present with text.
Optional(chars) == {<<>>, <<Elem(PyNone)>>, <<Elem(PyStr(chars))>>}

SampleAffiliations ==
    {<<"a", "@", "b", " ", "I", "n", "c">>, <<"L", "L", "C">>,
     <<"I", "n", "c", " ", "S", "c", "h", "o", "o", "l">>}

Authors ==
    [fore : Optional(<<"J">>),
     last : Optional(<<"D">>),
     affil : {<<>>, <<Elem(PyNone)>>}
             \cup {<<Elem(PyStr(t))>> : t \in SampleAffiliations}]

NamedAuthor(text) ==
    [fore |-> <<Elem(PyStr(<<"J">>))>>,
     last |-> <<Elem(PyStr(<<"D">>))>>,
     affil |-> <<Elem(Text(text))>>]

DateBlocks == [year : Optional(<<"2", "0">>), medline : Optional(<<"M">>)]

FullDate == [year |-> <<Elem(PyStr(<<"2", "0">>))>>, medline |-> <<>>]

Article(title, pmid, pubdate, authors) ==
    [title |-> title, pmid |-> pmid, pubdate |-> pubdate, authors |-> authors]

\* One article, one author with the affiliation text t.
TextArticle(t) ==
    Article(<<Elem(PyStr(<<"T">>))>>, <<Elem(PyStr(<<"1">>))>>, <<FullDate>>,
            <<NamedAuthor(t)>>)

\* One article with the author list as.
AuthorArticle(as) ==
    Article(<<Elem(PyStr(<<"T">>))>>, <<Elem(PyStr(<<"1">>))>>, <<FullDate>>, as)

\* One article with one qualifying author and the given title, PMID and
\* PubDate occurrences.
MetaArticle(t, p, d) == Article(t, p, d, <<NamedAuthor(<<"L", "L", "C">>)>>)

\* Articles of a multi-article document: told apart by their PMID; no author,
\* an academic one, a company one, or a company one with an empty LastName.
BatchArticles ==
    {Article(<<Elem(PyStr(<<"T">>))>>, <<Elem(PyStr(p))>>, <<FullDate>>, as) :
        p \in {<<"1">>, <<"2">>},
        as \in {<<>>,
                <<NamedAuthor(<<"S", "c", "h", "o", "o", "l">>)>>,
                <<NamedAuthor(<<"L", "L", "C">>)>>,
                <<[NamedAuthor(<<"L", "L", "C">>) EXCEPT !.last = <<Elem(PyNone)>>]>>}}

WellFormed(articles) == [wellFormed |-> TRUE, articles |-> articles]

\* Bytes ET.fromstring rejects.
Malformed == [wellFormed |-> FALSE, articles |-> <<>>]

\* ------------------------------------------------------------ state
VARIABLES
    pc,        \* main(): "none" (not running), "search", "fetch", "call_parse",
               \* "parse", "done", "crashed"
    file,      \* args.file
    debug,     \* args.debug
    ids,       \* the list search_pubmed returned
    xml_data,  \* the bytes handed to parse_articles
    ppc,       \* parse_articles: "idle", "call", "loop", "returned", "raised"
    i,         \* the article the loop of parse_articles is at
    results,   \* results of parse_articles
    error,     \* the exception parse_articles raised, or "none"
    sources,   \* for each record of results, the index of its source article
    affiliation, \* the argument of a direct call of has_company_affiliation
    verdict,   \* what that call returned: <<>> before it returns, then <<b>>
    calls,     \* the collaborators main() has called, in order
    stdout,    \* the lines main() has printed, by kind
    csv        \* the file save_to_csv wrote

vars ==
    <<pc, file, debug, ids, xml_data, ppc, i, results, error, sources,
      affiliation, verdict, calls, stdout, csv>>

mainVars == <<pc, file, debug, ids, calls, stdout, csv>>

parseVars == <<ppc, i, results, error, sources>>

classifyVars == <<affiliation, verdict>>

NoCsv == [written |-> FALSE, rows |-> 0]

\* ------------------------------------------------------------ parse_articles
\* parse_articles with the ParseError swallowed: an empty tree is traversed.
ParseXmlLenient ==
    /\ ppc = "call"
    /\ ppc' = "loop"
    /\ error' = error
    /\ i' = 1
    /\ results' = <<>>
    /\ sources' = <<>>
    /\ UNCHANGED <<mainVars, classifyVars, xml_data>>

\* results = []; root = ET.fromstring(xml_data), ParseError re-raised as RuntimeError.
ParseXml ==
    /\ ppc = "call"
    /\ IF xml_data.wellFormed
       THEN /\ ppc' = "loop"
            /\ error' = error
       ELSE /\ ppc' = "raised"
            /\ error' = "RuntimeError"
    /\ i' = 1
    /\ results' = <<>>
    /\ sources' = <<>>
    /\ UNCHANGED <<mainVars, classifyVars, xml_data>>

\* What one iteration of the article loop leaves in results.
AfterArticle(article, res) ==
    LET loop == AuthorLoop(article.authors, 1, <<>>)
    IN  IF loop.list # <<>> THEN Append(res, ResultRecord(article, loop.list)) ELSE res

\* One iteration of `for article in root.findall(".//PubmedArticle")`.
ParseArticle ==
    /\ ppc = "loop"
    /\ i <= Len(xml_data.articles)
    /\ IF AuthorLoop(xml_data.articles[i].authors, 1, <<>>).raised
       THEN /\ ppc' = "raised"
            /\ error' = "TypeError"
            /\ UNCHANGED <<i, results, sources>>
       ELSE /\ results' = AfterArticle(xml_data.articles[i], results)
            /\ sources' = IF Len(results') > Len(results)
                          THEN Append(sources, i) ELSE sources
            /\ i' = i + 1
            /\ UNCHANGED <<ppc, error>>
    /\ UNCHANGED <<mainVars, classifyVars, xml_data>>

\* return results
ParseReturn ==
    /\ ppc = "loop"
    /\ i > Len(xml_data.articles)
    /\ ppc' = "returned"
    /\ UNCHANGED <<mainVars, classifyVars, xml_data, i, results, error, sources>>

\* parse_articles called on its own, on any bytes.
InitParse ==
    /\ pc = "none"
    /\ file = PyNone
    /\ debug = FALSE
    /\ ids = <<>>
    /\ \/ xml_data = Malformed
       \/ \E n \in 0..MaxArticles : \E as \in [1..n -> BatchArticles] :
             xml_data = WellFormed(as)
       \/ \E n \in 0..MaxPieces : \E pieces \in [1..n -> Vocabulary] :
             xml_data = WellFormed(<<TextArticle(Flatten(pieces))>>)
       \/ \E n \in 0..MaxAuthors : \E as \in [1..n -> Authors] :
             xml_data = WellFormed(<<AuthorArticle(as)>>)
       \/ \E t \in Optional(<<"T">>) : \E p \in Optional(<<"1">>) :
             \E n \in 0..MaxPubDates : \E d \in [1..n -> DateBlocks] :
                xml_data = WellFormed(<<MetaArticle(t, p, d)>>)
    /\ ppc = "call"
    /\ i = 1
    /\ results = <<>>
    /\ error = "none"
    /\ sources = <<>>
    /\ affiliation = PyNone
    /\ verdict = <<>>
    /\ calls = <<>>
    /\ stdout = <<>>
    /\ csv = NoCsv

NextParse == ParseXml \/ ParseArticle \/ ParseReturn

SpecParse == InitParse /\ [][NextParse]_vars

\* ------------------------------------------------------------ main()
\* n copies of a line.
Lines(kind, n) == [k \in 1..n |-> kind]

\* The identifiers search_pubmed returns: the text of each Id element.
IdList(n) == [k \in 1..n |-> "id"]

\* save_to_csv: the header row, then one row per item.
save_to_csv(data) == [written |-> TRUE, rows |-> Len(data)]

\* print_to_console: one block per item, then the closing rule.
print_to_console(data) == Lines("record", Len(data)) \o <<"rule">>

\* `if args.file is not None:`
FileGivenNotNone(f) == f # PyNone

\* `if args.file:`
FileGiven(f) == Truthy(f)

\* Lines 66-78: the debug banner, search_pubmed, and its two early returns.
Search ==
    /\ pc = "search"
    /\ calls' = Append(calls, "search_pubmed")
    /\ LET banner == IF debug THEN Lines("debug", 3) ELSE <<>>
       IN  \/ /\ stdout' = stdout \o banner \o <<"search_error">>
              /\ pc' = "done"
              /\ ids' = ids
           \/ \E n \in 0..MaxIds :
                /\ ids' = IdList(n)
                /\ IF n = 0
                   THEN /\ stdout' = stdout \o banner \o <<"no_articles">>
                        /\ pc' = "done"
                   ELSE /\ stdout' = stdout \o banner
                                     \o (IF debug THEN Lines("debug", 2) ELSE <<>>)
                        /\ pc' = "fetch"
    /\ UNCHANGED <<file, debug, xml_data, parseVars, classifyVars, csv>>

\* Line 85: fetch_pubmed_articles returns bytes or raises; line 88 reports it.
Fetch ==
    /\ pc = "fetch"
    /\ calls' = Append(calls, "fetch_pubmed_articles")
    /\ \/ /\ stdout' = Append(stdout, "fetch_parse_error")
          /\ pc' = "done"
          /\ xml_data' = xml_data
       \/ /\ \/ xml_data' = Malformed
             \/ \E n \in 0..MaxArticles : \E as \in [1..n -> BatchArticles] :
                   xml_data' = WellFormed(as)
          /\ pc' = "call_parse"
          /\ stdout' = stdout
    /\ UNCHANGED <<file, debug, ids, parseVars, classifyVars, csv>>

\* Line 86: results = parse_articles(xml_data)
CallParse ==
    /\ pc = "call_parse"
    /\ calls' = Append(calls, "parse_articles")
    /\ pc' = "parse"
    /\ ppc' = "call"
    /\ UNCHANGED <<file, debug, ids, xml_data, i, results, error, sources, classifyVars, stdout, csv>>

\* Lines 87-89: whatever parse_articles raised is reported, and main returns.
ParseFailed ==
    /\ pc = "parse"
    /\ ppc = "raised"
    /\ stdout' = Append(stdout, "fetch_parse_error")
    /\ pc' = "done"
    /\ UNCHANGED <<file, debug, ids, xml_data, parseVars, classifyVars, calls, csv>>

\* Lines 91-102: the count under --debug, the empty-result return, the output.
Report ==
    /\ pc = "parse"
    /\ ppc = "returned"
    /\ LET count == IF debug THEN <<"debug">> ELSE <<>>
       IN  IF results = <<>>
           THEN /\ stdout' = stdout \o count \o <<"no_company">>
                /\ pc' = "done"
                /\ UNCHANGED <<calls, csv>>
           ELSE IF FileGiven(file)
           THEN /\ calls' = Append(calls, "save_to_csv")
                /\ \/ /\ csv' = save_to_csv(results)
                      /\ stdout' = stdout \o count \o <<"saved">>
                      /\ pc' = "done"
                   \/ /\ csv' = csv
                      /\ stdout' = stdout \o count
                      /\ pc' = "crashed"
           ELSE /\ calls' = Append(calls, "print_to_console")
                /\ stdout' = stdout \o count \o print_to_console(results)
                /\ pc' = "done"
                /\ csv' = csv
    /\ UNCHANGED <<file, debug, ids, xml_data, parseVars, classifyVars>>

\* main() after parse_args: -f absent, -f "" or -f with a name; -d or not.
Init ==
    /\ pc = "search"
    /\ file \in {PyNone, PyStr(<<>>), PyStr(<<"o">>)}
    /\ debug \in BOOLEAN
    /\ ids = <<>>
    /\ xml_data = Malformed
    /\ ppc = "idle"
    /\ i = 1
    /\ results = <<>>
    /\ error = "none"
    /\ sources = <<>>
    /\ affiliation = PyNone
    /\ verdict = <<>>
    /\ calls = <<>>
    /\ stdout = <<>>
    /\ csv = NoCsv

Next ==
    \/ Search
    \/ Fetch
    \/ CallParse
    \/ ParseXml
    \/ ParseArticle
    \/ ParseReturn
    \/ ParseFailed
    \/ Report

Spec == Init /\ [][Next]_vars

\* ------------------------------------------------------------ has_company_affiliation, called directly
\* The call returns.
Classify ==
    /\ verdict = <<>>
    /\ verdict' = <<has_company_affiliation(affiliation)>>
    /\ UNCHANGED <<mainVars, parseVars, xml_data, affiliation>>

\* Any argument the signature admits: None, "" or a text.
InitClassify ==
    /\ pc = "none"
    /\ file = PyNone
    /\ debug = FALSE
    /\ ids = <<>>
    /\ xml_data = Malformed
    /\ ppc = "idle"
    /\ i = 1
    /\ results = <<>>
    /\ error = "none"
    /\ sources = <<>>
    /\ \/ affiliation = PyNone
       \/ \E n \in 0..MaxPieces : \E pieces \in [1..n -> Vocabulary] :
             affiliation = PyStr(Flatten(pieces))
    /\ verdict = <<>>
    /\ calls = <<>>
    /\ stdout = <<>>
    /\ csv = NoCsv

NextClassify == Classify

SpecClassify == InitClassify /\ [][NextClassify]_vars

\* ------------------------------------------------------------ properties
\* needle occurs in text: some offset at which every character agrees.
IsSubstring(needle, text) ==
    \E p \in 1..(Len(text) - Len(needle) + 1) :
        \A j \in 1..Len(needle) : text[p + j - 1] = needle[j]

CommercialMarkers ==
    {<<"I", "n", "c">>, <<"L", "t", "d">>,
     <<"C", "o", "r", "p", "o", "r", "a", "t", "i", "o", "n">>,
     <<"P", "h", "a", "r", "m", "a">>, <<"B", "i", "o", "t", "e", "c", "h">>,
     <<"L", "L", "C">>}

AcademicMarkers ==
    {<<"U", "n", "i", "v", "e", "r", "s", "i", "t", "y">>,
     <<"H", "o", "s", "p", "i", "t", "a", "l">>,
     <<"S", "c", "h", "o", "o", "l">>,
     <<"I", "n", "s", "t", "i", "t", "u", "t", "e">>}

HasCommercial(text) == \E m \in CommercialMarkers : IsSubstring(m, text)

HasAcademic(text) == \E m \in AcademicMarkers : IsSubstring(m, text)

\* The source article of record j of results.
SourceOf(j) == xml_data.articles[sources[j]]

\* The indices of the authors of an article that qualify, in document order.
QualifyingIndices(article) ==
    SelectSeq([k \in 1..Len(article.authors) |-> k],
              LAMBDA k : Qualifies(article.authors[k]))

\* C2: has_company_affiliation returns a boolean for every argument; False
\* for None and for ""; and for a non-empty text True exactly when some
\* commercial marker is a substring of it and no academic marker is.
C2_Classifier ==
    verdict # <<>> =>
        /\ verdict[1] \in BOOLEAN
        /\ (affiliation.kind = "None" \/ affiliation.s = <<>>) => verdict[1] = FALSE
        /\ (affiliation.kind = "str" /\ affiliation.s # <<>>) =>
              (verdict[1] <=> (HasCommercial(affiliation.s) /\ ~HasAcademic(affiliation.s)))
        /\ HasAcademic(affiliation.s) => verdict[1] = FALSE

\* A text with a commercial and an academic marker was classified.
C2_Witness ==
    /\ verdict = <<FALSE>>
    /\ HasCommercial(affiliation.s)
    /\ HasAcademic(affiliation.s)

\* The addresses of a text: <<a, b, c>> with "@" at b, a non-empty run of
\* word characters, dots and hyphens from a to b - 1 and one from b + 1 to c,
\* neither run extendable at its outer end.
Addresses(text) ==
    {abc \in {<<a, b, c>> : a \in 1..Len(text),
                            b \in {q \in 1..Len(text) : text[q] = "@"},
                            c \in 1..Len(text)} :
        /\ abc[1] < abc[2]
        /\ abc[2] < abc[3]
        /\ \A k \in abc[1]..(abc[2] - 1) : InClass(text[k])
        /\ \A k \in (abc[2] + 1)..abc[3] : InClass(text[k])
        /\ (abc[1] = 1 \/ ~InClass(text[abc[1] - 1]))
        /\ (abc[3] = Len(text) \/ ~InClass(text[abc[3] + 1]))}

\* The address of a text that starts first.
Leftmost(text) ==
    CHOOSE abc \in Addresses(text) : \A other \in Addresses(text) : abc[1] <= other[1]

\* C9: the email of every entry of every record is the leftmost address of
\* the entry's affiliation text, and is "N/A" exactly when the text holds no
\* address.
C9_Email ==
    \A j \in 1..Len(results) : \A k \in 1..Len(results[j].emails) :
        LET text == results[j].affiliations[k].s
            email == results[j].emails[k]
        IN  /\ (email = NA) <=> (Addresses(text) = {})
            /\ Addresses(text) # {} =>
                  email = PyStr(SubSeq(text, Leftmost(text)[1], Leftmost(text)[3]))

\* A returned record whose affiliation holds two addresses.
C9_Witness ==
    /\ ppc = "returned"
    /\ \E j \in 1..Len(results) : \E k \in 1..Len(results[j].emails) :
          /\ Cardinality(Addresses(results[j].affiliations[k].s)) >= 2
          /\ results[j].emails[k] # NA

\* C3: in every record the three lists have one entry per qualifying author
\* of the source article, entry k of each list coming from the k-th
\* qualifying author in document order.
C3_ParallelLists ==
    /\ Len(sources) = Len(results)
    /\ \A j \in 1..Len(results) :
          LET q == QualifyingIndices(SourceOf(j))
              r == results[j]
          IN  /\ Len(r.authors) = Len(q)
              /\ Len(r.affiliations) = Len(q)
              /\ Len(r.emails) = Len(q)
              /\ \A k \in 1..Len(q) :
                    LET author == SourceOf(j).authors[q[k]]
                    IN  /\ r.authors[k] = FullName(author)
                        /\ r.affiliations[k] = author.affil[1].text
                        /\ r.emails[k] = Email(author.affil[1].text)

\* A returned record of two different qualifying authors.
C3_Witness ==
    /\ ppc = "returned"
    /\ \E j \in 1..Len(results) :
          /\ Len(results[j].authors) = 2
          /\ results[j].affiliations[1] # results[j].affiliations[2]

\* C7: the date of every record is the Year text of the first PubDate block
\* of its source when that block has a Year, else the block's MedlineDate
\* text when it has one, else "Unknown"; "Unknown" too without a PubDate
\* block; and never the two texts joined.
C7_Date ==
    \A j \in 1..Len(results) :
        LET blocks == SourceOf(j).pubdate
            date == results[j].date
        IN  /\ blocks = <<>> => date = Unknown
            /\ blocks # <<>> =>
                  /\ blocks[1].year # <<>> => date = blocks[1].year[1].text
                  /\ (blocks[1].year = <<>> /\ blocks[1].medline # <<>>) =>
                        date = blocks[1].medline[1].text
                  /\ (blocks[1].year = <<>> /\ blocks[1].medline = <<>>) =>
                        date = Unknown
                  /\ (blocks[1].year # <<>> /\ blocks[1].medline # <<>>
                      /\ blocks[1].year[1].text.kind = "str"
                      /\ blocks[1].medline[1].text.kind = "str") =>
                        /\ date.s # blocks[1].year[1].text.s \o blocks[1].medline[1].text.s
                        /\ date.s # blocks[1].medline[1].text.s \o blocks[1].year[1].text.s

\* A returned record whose first PubDate block has both sub-fields, and
\* another PubDate block after it.
C7_Witness ==
    /\ ppc = "returned"
    /\ \E j \in 1..Len(results) :
          /\ Len(SourceOf(j).pubdate) = 2
          /\ SourceOf(j).pubdate[1].year # <<>>
          /\ SourceOf(j).pubdate[1].medline # <<>>
          /\ SourceOf(j).pubdate[2] # SourceOf(j).pubdate[1]
          /\ results[j].date = SourceOf(j).pubdate[1].year[1].text

\* The indices of the articles of the document with a qualifying author.
QualifyingArticles ==
    {n \in 1..Len(xml_data.articles) :
        \E k \in 1..Len(xml_data.articles[n].authors) :
            Qualifies(xml_data.articles[n].authors[k])}

\* C1: on every well-formed document parse_articles returns one record for
\* each article that has a qualifying author and none for any other, in
\* document order, none with an empty authors list.
C1_OneRecordPerQualifyingArticle ==
    (xml_data.wellFormed /\ ppc \in {"returned", "raised"}) =>
        /\ ppc = "returned"
        /\ Len(results) = Cardinality(QualifyingArticles)
        /\ Len(results) <= Len(xml_data.articles)
        /\ {sources[j] : j \in 1..Len(sources)} = QualifyingArticles
        /\ \A j \in 1..(Len(sources) - 1) : sources[j] < sources[j + 1]
        /\ \A j \in 1..Len(results) : results[j].authors # <<>>

\* C4: on a well-formed document parse_articles never raises; the one error
\* it raises is the RuntimeError for bytes that are not well-formed.
C4_Total ==
    /\ xml_data.wellFormed => (ppc # "raised" /\ error = "none")
    /\ error # "none" => (error = "RuntimeError" /\ ~xml_data.wellFormed)

\* The character data of an element: the empty string when it has none.
XmlText(elem) == IF elem.text = PyNone THEN PyStr(<<>>) ELSE elem.text

\* C5: the pmid of every record is "N/A" exactly when its source has no PMID
\* element and otherwise the element's text, the empty string for an element
\* with no text; likewise the title with "No Title" and ArticleTitle.
C5_Sentinels ==
    \A j \in 1..Len(results) :
        /\ (results[j].pmid = NA) <=> (SourceOf(j).pmid = <<>>)
        /\ (results[j].title = NoTitle) <=> (SourceOf(j).title = <<>>)
        /\ SourceOf(j).pmid # <<>> => results[j].pmid = XmlText(SourceOf(j).pmid[1])
        /\ SourceOf(j).title # <<>> => results[j].title = XmlText(SourceOf(j).title[1])

\* The name an author is specified to have: ForeName, a space and LastName; the
\* one that is present when the other is absent; empty when both are.
NameOf(author) ==
    IF author.fore # <<>> /\ author.last # <<>>
    THEN PyStr(XmlText(author.fore[1]).s \o <<" ">> \o XmlText(author.last[1]).s)
    ELSE IF author.last # <<>> THEN XmlText(author.last[1])
    ELSE IF author.fore # <<>> THEN XmlText(author.fore[1])
    ELSE PyStr(<<>>)

\* C8: the name of every entry of every record is ForeName, one space and
\* LastName when both are present, the LastName alone without a ForeName,
\* empty without both, and never starts or ends with the separator.
C8_FullName ==
    \A j \in 1..Len(results) :
        LET q == QualifyingIndices(SourceOf(j))
        IN  \A k \in 1..Len(results[j].authors) :
                LET name == results[j].authors[k]
                IN  /\ name = NameOf(SourceOf(j).authors[q[k]])
                    /\ name.s # <<>> => (name.s[1] # " " /\ name.s[Len(name.s)] # " ")

OutputCalls == {"save_to_csv", "print_to_console"}

Contains(list, x) == \E k \in 1..Len(list) : list[k] = x

\* C6: once parse_articles has acted on bytes that are not well-formed it has
\* raised RuntimeError, with no article traversed and no list returned, and
\* main() ends with the error message as its last line, no CSV file written,
\* no record printed and no output function called.
C6_Malformed ==
    (~xml_data.wellFormed /\ ppc \notin {"idle", "call"}) =>
        /\ ppc = "raised"
        /\ error = "RuntimeError"
        /\ i = 1
        /\ results = <<>>
        /\ csv = NoCsv
        /\ ~Contains(stdout, "record")
        /\ ~Contains(stdout, "no_company")
        /\ ~Contains(stdout, "saved")
        /\ \A k \in 1..Len(calls) : calls[k] \notin OutputCalls
        /\ pc # "crashed"
        /\ pc = "done" => stdout[Len(stdout)] = "fetch_parse_error"
        /\ pc \in {"parse", "done"} => (pc = "done" <=> ~ENABLED Next)

\* main() has ended on malformed bytes.
C6_Witness ==
    /\ pc = "done"
    /\ ~xml_data.wellFormed
    /\ error = "RuntimeError"
    /\ calls = <<"search_pubmed", "fetch_pubmed_articles", "parse_articles">>

Stages == <<"search_pubmed", "fetch_pubmed_articles", "parse_articles">>

\* A file name: a non-empty string after -f.
NameGiven == file.kind = "str" /\ Len(file.s) > 0

\* C10: main() calls search, fetch, parse and one output function in that
\* order and no more; fetch only after a non-empty ID list, parse only after
\* a fetch that returned, output only after parse_articles returned a
\* non-empty list, and then exactly once: save_to_csv with a file name,
\* print_to_console without; a failure or an empty result ends the run.
C10_Stages ==
    /\ Len(calls) <= 4
    /\ \A k \in 1..Len(calls) :
          IF k <= 3 THEN calls[k] = Stages[k] ELSE calls[k] \in OutputCalls
    /\ Len(calls) >= 2 =>
          (ids # <<>> /\ ~Contains(stdout, "search_error")
                      /\ ~Contains(stdout, "no_articles"))
    /\ (Contains(stdout, "search_error") \/ Contains(stdout, "no_articles")) =>
          (calls = <<"search_pubmed">> /\ pc = "done")
    /\ (Len(calls) = 1 /\ ids = <<>>) => pc = "done"
    /\ (Contains(stdout, "fetch_parse_error") /\ ppc = "idle") =>
          (calls = <<"search_pubmed", "fetch_pubmed_articles">> /\ pc = "done")
    /\ Len(calls) >= 3 => pc \notin {"search", "fetch", "call_parse"}
    /\ Len(calls) = 4 => (ppc = "returned" /\ results # <<>>)
    /\ (pc \in {"done", "crashed"} /\ ppc = "returned" /\ results # <<>>) =>
          /\ Len(calls) = 4
          /\ calls[4] = IF NameGiven THEN "save_to_csv" ELSE "print_to_console"
    /\ (pc = "done" /\ (ppc # "returned" \/ results = <<>>)) =>
          (Len(calls) <= 3 /\ csv = NoCsv /\ ~Contains(stdout, "record"))
    /\ pc \in {"done", "crashed"} <=> ~ENABLED Next

\* main() has ended after all four stages, the last one save_to_csv.
C10_Witness ==
    /\ pc = "done"
    /\ calls = Stages \o <<"save_to_csv">>
    /\ NameGiven
    /\ csv.written

====
